---- MODULE Spec2Model ----
(***************************************************************************)
(* Model of the two core components of stm32-git-init-tool:                *)
(*   - the patch engine, apply_patch (src/src/patches.rs), and             *)
(*   - the Makefile config extractor, parse_makefile / unfold_multiline    *)
(*     (src/makefile_parser/src/lib.rs).                                   *)
(* Text is modelled as a sequence of one-character strings, so that the    *)
(* substring, line-splitting, replacement and regex operations are         *)
(* computed character by character as the code computes them.              *)
(***************************************************************************)
EXTENDS Naturals, Integers, Sequences, FiniteSets, TLC

VARIABLES
    file,       \* the patch target on disk: [kind, content]
    writable,   \* whether fs::write on the target succeeds
    patch,      \* the Patch value handed to apply_patch
    log,        \* one record per apply_patch call: [before, after, result, wrote]
    phys,       \* unfold_multiline: the physical lines handed to it
    unf,        \* unfold_multiline: the loop's position and locals [i, current, result, done]
    items,      \* the statements the Makefile text was written from
    content,    \* parse_makefile: the input text
    parse,      \* parse_makefile: [pc, lines, i, cfg, include_set, define_set]
    files,      \* a run: the working tree, file name -> [kind, content]
    writables,  \* a run: file name -> whether fs::write on it succeeds
    plist,      \* a run: the patches its apply_patch calls are made with, in order
    run         \* a run: [idx, status, trace, initial]

vars == <<file, writable, patch, log, phys, unf, items, content, parse,
          files, writables, plist, run>>

\* the state of a run of the tool
runVars == <<files, writables, plist, run>>

(***************************************************************************)
(* Bounds of the model.                                                    *)
(***************************************************************************)
\* longest enumerated file content, in characters
MaxLen == 3
\* number of consecutive apply_patch calls with the same patch
MaxRuns == 2
\* number of physical lines handed to unfold_multiline
MaxLines == 3
\* number of statements of an enumerated Makefile
MaxItems == 2
\* number of apply_patch calls of a run
MaxPatches == 3

(***************************************************************************)
(* Text helpers (Rust str methods used by the code).                       *)
(***************************************************************************)
\* a string literal as a sequence of characters
Chars(s) == [i \in 1..Len(s) |-> SubSeq(s, i, i)]

\* all texts over alphabet A of length at most n
TextsUpTo(A, n) == UNION {[1..k -> A] : k \in 0..n}

\* the set of elements of a sequence
Range0(s) == {s[i] : i \in 1..Len(s)}

\* str::starts_with
StartsWith(s, p) == Len(p) <= Len(s) /\ SubSeq(s, 1, Len(p)) = p

\* str::ends_with
EndsWith(s, p) == Len(p) <= Len(s) /\ SubSeq(s, Len(s) - Len(p) + 1, Len(s)) = p

\* the text from position i (1-based) to the end
From(s, i) == SubSeq(s, i, Len(s))

\* str::contains with a string pattern
Contains(s, sub) ==
    \E i \in 0..(Len(s) - Len(sub)) : SubSeq(s, i + 1, i + Len(sub)) = sub

\* position of the first occurrence of sub in s at or after i (1-based), 0 if none
RECURSIVE FindFrom(_, _, _)
FindFrom(s, sub, i) ==
    IF i + Len(sub) - 1 > Len(s) THEN 0
    ELSE IF SubSeq(s, i, i + Len(sub) - 1) = sub THEN i
    ELSE FindFrom(s, sub, i + 1)

\* str::lines: split after each "\n", then strip the "\n" and a "\r" before it;
\* a final line ending is optional and the empty text has no line
RECURSIVE Lines(_)
Lines(s) ==
    IF s = <<>> THEN <<>>
    ELSE LET k == FindFrom(s, <<"\n">>, 1)
             raw == SubSeq(s, 1, k - 1)
             line == IF EndsWith(raw, <<"\r">>) THEN SubSeq(raw, 1, Len(raw) - 1) ELSE raw
         IN IF k = 0 THEN <<s>> ELSE <<line>> \o Lines(From(s, k + 1))

\* [String]::join
RECURSIVE Join(_, _)
Join(ls, sep) ==
    IF ls = <<>> THEN <<>>
    ELSE IF Len(ls) = 1 THEN ls[1]
    ELSE ls[1] \o sep \o Join(Tail(ls), sep)

\* str::replace for a non-empty pattern: non-overlapping matches, left to right
RECURSIVE ReplaceNonEmpty(_, _, _)
ReplaceNonEmpty(s, find, insert) ==
    LET k == FindFrom(s, find, 1)
    IN IF k = 0 THEN s
       ELSE SubSeq(s, 1, k - 1) \o insert \o ReplaceNonEmpty(From(s, k + Len(find)), find, insert)

\* str::replace for the empty pattern: it matches at every character boundary
RECURSIVE ReplaceEmpty(_, _)
ReplaceEmpty(s, insert) ==
    IF s = <<>> THEN insert
    ELSE insert \o <<Head(s)>> \o ReplaceEmpty(Tail(s), insert)

\* StrReplace that replaces the first occurrence only (str::replacen with 1)
StrReplaceFirst(s, find, insert) ==
    LET k == FindFrom(s, find, 1)
    IN IF k = 0 THEN s
       ELSE SubSeq(s, 1, k - 1) \o insert \o From(s, k + Len(find))

\* str::replace
StrReplace(s, find, insert) ==
    IF find = <<>> THEN ReplaceEmpty(s, insert) ELSE ReplaceNonEmpty(s, find, insert)

(***************************************************************************)
(* The regex crate, as far as apply_patch uses it: Regex::new, is_match,   *)
(* replace_all with the replacement-string syntax.  A compiled regex is a  *)
(* sequence of nodes matched by backtracking in priority order, which is   *)
(* the crate's leftmost-first semantics.                                   *)
(***************************************************************************)
Lit(c) == [t |-> "lit", c |-> c, sub |-> <<>>, alt |-> <<>>]
AnyChar == [t |-> "any", c |-> "", sub |-> <<>>, alt |-> <<>>]
Bol == [t |-> "bol", c |-> "", sub |-> <<>>, alt |-> <<>>]
Eol == [t |-> "eol", c |-> "", sub |-> <<>>, alt |-> <<>>]
Star(sub) == [t |-> "star", c |-> "", sub |-> sub, alt |-> <<>>]
LazyStar(sub) == [t |-> "lazy", c |-> "", sub |-> sub, alt |-> <<>>]
Opt(sub) == [t |-> "opt", c |-> "", sub |-> sub, alt |-> <<>>]
Alt(a, b) == [t |-> "alt", c |-> "", sub |-> a, alt |-> b]
LitSeq(s) == [t |-> "litseq", c |-> s, sub |-> <<>>, alt |-> <<>>]

\* the pattern clion_custom_init passes for the FPU patch (both match arms)
HardFpuPattern == "(?ms)^#Uncomment for hardware floating point(?:\n#.*?)*\n?(?:\n|$)"

\* the replacement clion_custom_init passes for the FPU patch
HardFpuInsert == Chars("${0/#/}")

HardFpuHeader == Chars("#Uncomment for hardware floating point")

\* Regex::new on the patterns of the model: [ok, m, s, ast]; m and s are the
\* multi-line and dot-matches-newline flags.  None of the patterns has a
\* capture group other than group 0.
RegexNew(pattern) ==
    CASE pattern = "a" ->
           [ok |-> TRUE, m |-> FALSE, s |-> FALSE, ast |-> <<Lit("a")>>]
      [] pattern = "^a" ->
           [ok |-> TRUE, m |-> FALSE, s |-> FALSE, ast |-> <<Bol, Lit("a")>>]
      [] pattern = "b*" ->
           [ok |-> TRUE, m |-> FALSE, s |-> FALSE, ast |-> <<Star(<<Lit("b")>>)>>]
      [] pattern = HardFpuPattern ->
           [ok |-> TRUE, m |-> TRUE, s |-> TRUE,
            ast |-> <<Bol, LitSeq(HardFpuHeader),
                         Star(<<Lit("\n"), Lit("#"), LazyStar(<<AnyChar>>)>>),
                         Opt(<<Lit("\n")>>),
                         Alt(<<Lit("\n")>>, <<Eol>>)>>]
      [] OTHER ->  \* "(" : unclosed group
           [ok |-> FALSE, m |-> FALSE, s |-> FALSE, ast |-> <<>>]

\* end offset of the first match (in priority order) of the node sequence k
\* at offset pos of text, -1 if there is none
RECURSIVE MatchAt(_, _, _, _)
MatchAt(k, pos, text, re) ==
    IF k = <<>> THEN pos
    ELSE LET n == Head(k)
             rest == Tail(k)
         IN CASE n.t = "lit" ->
                   IF pos < Len(text) /\ text[pos + 1] = n.c
                   THEN MatchAt(rest, pos + 1, text, re) ELSE -1
              [] n.t = "litseq" ->
                   IF pos + Len(n.c) <= Len(text)
                      /\ SubSeq(text, pos + 1, pos + Len(n.c)) = n.c
                   THEN MatchAt(rest, pos + Len(n.c), text, re) ELSE -1
              [] n.t = "any" ->
                   IF pos < Len(text) /\ (re.s \/ text[pos + 1] # "\n")
                   THEN MatchAt(rest, pos + 1, text, re) ELSE -1
              [] n.t = "bol" ->
                   IF pos = 0 \/ (re.m /\ text[pos] = "\n")
                   THEN MatchAt(rest, pos, text, re) ELSE -1
              [] n.t = "eol" ->
                   IF pos = Len(text) \/ (re.m /\ text[pos + 1] = "\n")
                   THEN MatchAt(rest, pos, text, re) ELSE -1
              [] n.t = "star" ->
                   LET r == MatchAt(n.sub \o <<n>> \o rest, pos, text, re)
                   IN IF r # -1 THEN r ELSE MatchAt(rest, pos, text, re)
              [] n.t = "lazy" ->
                   LET r == MatchAt(rest, pos, text, re)
                   IN IF r # -1 THEN r ELSE MatchAt(n.sub \o <<n>> \o rest, pos, text, re)
              [] n.t = "opt" ->
                   LET r == MatchAt(n.sub \o rest, pos, text, re)
                   IN IF r # -1 THEN r ELSE MatchAt(rest, pos, text, re)
              [] n.t = "alt" ->
                   LET r == MatchAt(n.sub \o rest, pos, text, re)
                   IN IF r # -1 THEN r ELSE MatchAt(n.alt \o rest, pos, text, re)

\* the leftmost match starting at offset start or later: [found, s, e]
RECURSIVE FindMatch(_, _, _)
FindMatch(re, text, start) ==
    IF start > Len(text) THEN [found |-> FALSE, s |-> 0, e |-> 0]
    ELSE LET e == MatchAt(re.ast, start, text, re)
         IN IF e # -1 THEN [found |-> TRUE, s |-> start, e |-> e]
            ELSE FindMatch(re, text, start + 1)

\* Regex::is_match
IsMatch(re, text) == FindMatch(re, text, 0).found

\* the characters of a bare capture-group name
WordChars == Range0(Chars("0123456789abcdefghijklmnopqrstuvwxyzABCDEFGHIJKLMNOPQRSTUVWXYZ_"))

\* number of leading capture-name characters of s
RECURSIVE WordPrefixLen(_)
WordPrefixLen(s) ==
    IF s # <<>> /\ Head(s) \in WordChars THEN 1 + WordPrefixLen(Tail(s)) ELSE 0

\* find_cap_ref of the crate: the reference at the "$" that starts rep,
\* [ok, name, end]; "${" takes everything up to "}", a bare "$" the longest
\* run of [0-9A-Za-z_]
FindCapRef(rep) ==
    LET none == [ok |-> FALSE, name |-> <<>>, end |-> 0]
    IN IF Len(rep) <= 1 THEN none
       ELSE IF rep[2] = "{"
       THEN LET close == FindFrom(rep, <<"}">>, 3)
            IN IF close = 0 THEN none
               ELSE [ok |-> TRUE, name |-> SubSeq(rep, 3, close - 1), end |-> close]
       ELSE LET n == WordPrefixLen(Tail(rep))
            IN IF n = 0 THEN none
               ELSE [ok |-> TRUE, name |-> SubSeq(rep, 2, n + 1), end |-> n + 1]

\* the text of the group a reference names: a name that parses as the number 0
\* is the whole match; any other number or name is a group the patterns of the
\* model do not have, which expands to the empty text
GroupText(name, m) ==
    IF name # <<>> /\ \A i \in 1..Len(name) : name[i] = "0" THEN m ELSE <<>>

\* Captures::expand: the replacement text for the match m
RECURSIVE Expand(_, _)
Expand(rep, m) ==
    IF rep = <<>> THEN <<>>
    ELSE IF Head(rep) # "$" THEN <<Head(rep)>> \o Expand(Tail(rep), m)
    ELSE IF Len(rep) >= 2 /\ rep[2] = "$" THEN <<"$">> \o Expand(From(rep, 3), m)
    ELSE LET ref == FindCapRef(rep)
         IN IF ~ref.ok THEN <<"$">> \o Expand(Tail(rep), m)
            ELSE GroupText(ref.name, m) \o Expand(From(rep, ref.end + 1), m)

\* Regex::replace_all: every non-overlapping match, left to right; an empty
\* match that ends where the previous match ended is passed over and the
\* search moves on by one character (after an empty match the search from its
\* end would find that same match again, so it resumes one character later)
RECURSIVE ReplaceAllFrom(_, _, _, _, _)
ReplaceAllFrom(re, text, insert, start, lastEnd) ==
    LET m == FindMatch(re, text, start)
        copyFrom == IF lastEnd = -1 THEN 0 ELSE lastEnd
    IN IF ~m.found THEN SubSeq(text, copyFrom + 1, Len(text))
       ELSE IF m.s = m.e /\ m.e = lastEnd
       THEN ReplaceAllFrom(re, text, insert, start + 1, lastEnd)
       ELSE SubSeq(text, copyFrom + 1, m.s)
            \o Expand(insert, SubSeq(text, m.s + 1, m.e))
            \o ReplaceAllFrom(re, text, insert, IF m.s = m.e THEN m.e + 1 ELSE m.e, m.e)

ReplaceAll(re, text, insert) == ReplaceAllFrom(re, text, insert, 0, -1)

(***************************************************************************)
(* The patch engine: apply_patch (src/src/patches.rs).                     *)
(***************************************************************************)
\* ReadToString with a missing file read as an empty one
ReadMissingAsEmpty(f) ==
    IF f.kind \in {"text", "missing"} THEN [ok |-> TRUE, content |-> f.content]
    ELSE [ok |-> FALSE, content |-> <<>>]

\* fs::read_to_string on the target: Ok(content) for a text file, Err for a
\* missing file, a file the process may not read, a file that is not UTF-8
ReadToString(f) ==
    IF f.kind = "text" THEN [ok |-> TRUE, content |-> f.content]
    ELSE [ok |-> FALSE, content |-> <<>>]

\* AppendEdit with insert placed above the matching line instead of below it
AppendEditAbove(text, after, insert) ==
    LET ls == Lines(text)
        mapped == [i \in 1..Len(ls) |->
                     IF Contains(ls[i], after) THEN insert \o <<"\n">> \o ls[i] ELSE ls[i]]
    IN Join(mapped, <<"\n">>) \o <<"\n">>

\* the Append arm: the lines, each matching one followed by insert, joined by
\* "\n", plus "\n"
AppendEdit(text, after, insert) ==
    LET ls == Lines(text)
        mapped == [i \in 1..Len(ls) |->
                     IF Contains(ls[i], after) THEN ls[i] \o <<"\n">> \o insert ELSE ls[i]]
    IN Join(mapped, <<"\n">>) \o <<"\n">>

\* Transform with a pattern that does not compile skipped instead of unwrapped
TransformSkipInvalid(p, text) ==
    CASE p.mode = "Append" ->
           IF Contains(text, p.marker) THEN [outcome |-> "skip", new |-> text]
           ELSE [outcome |-> "write", new |-> AppendEdit(text, p.after, p.insert)]
      [] p.mode = "Replace" ->
           IF Contains(text, p.insert) THEN [outcome |-> "skip", new |-> text]
           ELSE [outcome |-> "write", new |-> StrReplace(text, p.find, p.insert)]
      [] p.mode = "RegexReplace" ->
           LET re == RegexNew(p.pattern)
           IN IF ~re.ok THEN [outcome |-> "skip", new |-> text]
              ELSE IF IsMatch(re, text) /\ Contains(text, p.insert)
              THEN [outcome |-> "skip", new |-> text]
              ELSE [outcome |-> "write", new |-> ReplaceAll(re, text, p.insert)]

\* Transform with the Append arm's marker test left out
TransformNoMarker(p, text) ==
    CASE p.mode = "Append" ->
           [outcome |-> "write", new |-> AppendEdit(text, p.after, p.insert)]
      [] p.mode = "Replace" ->
           IF Contains(text, p.insert) THEN [outcome |-> "skip", new |-> text]
           ELSE [outcome |-> "write", new |-> StrReplace(text, p.find, p.insert)]
      [] p.mode = "RegexReplace" ->
           LET re == RegexNew(p.pattern)
           IN IF ~re.ok THEN [outcome |-> "panic", new |-> text]
              ELSE IF IsMatch(re, text) /\ Contains(text, p.insert)
              THEN [outcome |-> "skip", new |-> text]
              ELSE [outcome |-> "write", new |-> ReplaceAll(re, text, p.insert)]

\* the match over the patch: what the edit returns early with, or the new
\* content.  [outcome, new]: "skip" is the early return Ok(()), "panic" the
\* unwrap of a failed Regex::new, "write" the fall through to fs::write
Transform(p, text) ==
    CASE p.mode = "Append" ->
           IF Contains(text, p.marker) THEN [outcome |-> "skip", new |-> text]
           ELSE [outcome |-> "write", new |-> AppendEdit(text, p.after, p.insert)]
      [] p.mode = "Replace" ->
           IF Contains(text, p.insert) THEN [outcome |-> "skip", new |-> text]
           ELSE [outcome |-> "write", new |-> StrReplace(text, p.find, p.insert)]
      [] p.mode = "RegexReplace" ->
           LET re == RegexNew(p.pattern)
           IN IF ~re.ok THEN [outcome |-> "panic", new |-> text]
              ELSE IF IsMatch(re, text) /\ Contains(text, p.insert)
              THEN [outcome |-> "skip", new |-> text]
              ELSE [outcome |-> "write", new |-> ReplaceAll(re, text, p.insert)]

\* one call of apply_patch: [result, wrote, attempted, after].  result is
\* "Ok", "Err" (an io::Error returned to the caller) or "Panic"; attempted says
\* that fs::write was called, wrote that it succeeded
ApplyResult(p, f, canWrite) ==
    LET rd == ReadToString(f)
        tr == Transform(p, rd.content)
    IN IF ~rd.ok
       THEN [result |-> "Ok", wrote |-> FALSE, attempted |-> FALSE, after |-> f]
       ELSE IF tr.outcome = "skip"
       THEN [result |-> "Ok", wrote |-> FALSE, attempted |-> FALSE, after |-> f]
       ELSE IF tr.outcome = "panic"
       THEN [result |-> "Panic", wrote |-> FALSE, attempted |-> FALSE, after |-> f]
       ELSE IF canWrite
       THEN [result |-> "Ok", wrote |-> TRUE, attempted |-> TRUE,
             after |-> [kind |-> "text", content |-> tr.new]]
       ELSE [result |-> "Err", wrote |-> FALSE, attempted |-> TRUE, after |-> f]

(***************************************************************************)
(* The config extractor: unfold_multiline and parse_makefile               *)
(* (src/makefile_parser/src/lib.rs).                                       *)
(***************************************************************************)
\* char::is_whitespace, on the characters of the model
IsSpace(c) == c \in {" ", "\t", "\r", "\n"}

\* str::trim_end
RECURSIVE TrimEnd(_)
TrimEnd(s) ==
    IF s # <<>> /\ IsSpace(s[Len(s)]) THEN TrimEnd(SubSeq(s, 1, Len(s) - 1)) ELSE s

\* str::trim_start
RECURSIVE TrimStart(_)
TrimStart(s) == IF s # <<>> /\ IsSpace(Head(s)) THEN TrimStart(Tail(s)) ELSE s

\* str::trim
Trim(s) == TrimStart(TrimEnd(s))

\* str::trim_start_matches with a string pattern: the prefix is removed as
\* often as it repeats
RECURSIVE TrimStartMatches(_, _)
TrimStartMatches(s, p) ==
    IF p # <<>> /\ StartsWith(s, p) THEN TrimStartMatches(From(s, Len(p) + 1), p) ELSE s

\* number of leading non-whitespace characters
RECURSIVE TokenLen(_)
TokenLen(s) == IF s # <<>> /\ ~IsSpace(Head(s)) THEN 1 + TokenLen(Tail(s)) ELSE 0

\* str::split_whitespace
RECURSIVE SplitWhitespace(_)
SplitWhitespace(s) ==
    LET t == TrimStart(s)
        n == TokenLen(t)
    IN IF t = <<>> THEN <<>>
       ELSE <<SubSeq(t, 1, n)>> \o SplitWhitespace(From(t, n + 1))

\* the locals of unfold_multiline before its loop
UnfoldStart == [i |-> 1, current |-> <<>>, result |-> <<>>, done |-> FALSE]

UnfoldIdle == [i |-> 0, current |-> <<>>, result |-> <<>>, done |-> FALSE]

\* UnfoldLine without the space pushed after a continued fragment
UnfoldLineNoSpace(u, l) ==
    LET trimmed == TrimEnd(l)
    IN IF EndsWith(trimmed, <<"\\">>)
       THEN [u EXCEPT !.i = @ + 1,
                      !.current = @ \o SubSeq(trimmed, 1, Len(trimmed) - 1)]
       ELSE [u EXCEPT !.i = @ + 1,
                      !.current = <<>>,
                      !.result = Append(@, u.current \o trimmed)]

\* one iteration of the loop of unfold_multiline, on the line l
UnfoldLine(u, l) ==
    LET trimmed == TrimEnd(l)
    IN IF EndsWith(trimmed, <<"\\">>)
       THEN [u EXCEPT !.i = @ + 1,
                      !.current = @ \o SubSeq(trimmed, 1, Len(trimmed) - 1) \o <<" ">>]
       ELSE [u EXCEPT !.i = @ + 1,
                      !.current = <<>>,
                      !.result = Append(@, u.current \o trimmed)]

\* what follows the loop: a non-empty current is pushed
UnfoldFinish(u) ==
    [u EXCEPT !.done = TRUE,
              !.current = <<>>,
              !.result = IF u.current # <<>> THEN Append(@, u.current) ELSE @]

\* unfold_multiline as a function of its argument
RECURSIVE UnfoldLoop(_, _)
UnfoldLoop(u, ls) ==
    IF u.i > Len(ls) THEN UnfoldFinish(u) ELSE UnfoldLoop(UnfoldLine(u, ls[u.i]), ls)

UnfoldMultiline(ls) == UnfoldLoop(UnfoldStart, ls).result

\* the characters of a key: [A-Z0-9_-]
KeyChars == Range0(Chars("ABCDEFGHIJKLMNOPQRSTUVWXYZ0123456789_-"))

RECURSIVE KeyLen(_)
KeyLen(s) == IF s # <<>> /\ Head(s) \in KeyChars THEN 1 + KeyLen(Tail(s)) ELSE 0

\* ReAssign for a pattern that leaves "+" out of [:+]
ReAssignNoPlus(line) ==
    LET none == [ok |-> FALSE, key |-> <<>>, val |-> <<>>]
        k == KeyLen(line)
        r1 == TrimStart(From(line, k + 1))
        r2 == IF r1 # <<>> /\ r1[1] \in {":"} THEN Tail(r1) ELSE r1
        val == TrimStart(Tail(r2))
    IN IF k = 0 THEN none
       ELSE IF r2 = <<>> \/ r2[1] # "=" THEN none
       ELSE IF Contains(val, <<"\n">>) THEN none
       ELSE [ok |-> TRUE, key |-> SubSeq(line, 1, k), val |-> val]

\* re_assign.captures(line) for ^([A-Z0-9_-]+)\s*[:+]?=\s*(.*)$ :
\* [ok, key, val]
ReAssign(line) ==
    LET none == [ok |-> FALSE, key |-> <<>>, val |-> <<>>]
        k == KeyLen(line)
        r1 == TrimStart(From(line, k + 1))
        r2 == IF r1 # <<>> /\ r1[1] \in {":", "+"} THEN Tail(r1) ELSE r1
        val == TrimStart(Tail(r2))
    IN IF k = 0 THEN none
       ELSE IF r2 = <<>> \/ r2[1] # "=" THEN none
       ELSE IF Contains(val, <<"\n">>) THEN none
       ELSE [ok |-> TRUE, key |-> SubSeq(line, 1, k), val |-> val]

\* the MakefileConfig parse_makefile starts from; an Option is a sequence of
\* at most one value
EmptyConfig ==
    [target |-> <<>>, build_dir |-> <<>>, c_sources |-> <<>>, asm_sources |-> <<>>,
     includes |-> <<>>, defines |-> <<>>, cflags |-> <<>>, asflags |-> <<>>,
     ldflags |-> <<>>, libs |-> <<>>, ldscript |-> <<>>]

\* AddIncludes without the include_set membership test
RECURSIVE AddIncludesNoSet(_, _)
AddIncludesNoSet(st, toks) ==
    IF toks = <<>> THEN st
    ELSE LET token == Head(toks)
             path == TrimStartMatches(token, Chars("-I"))
         IN IF StartsWith(token, Chars("-I"))
            THEN AddIncludesNoSet([st EXCEPT !.include_set = @ \cup {path},
                                             !.cfg.includes = Append(@, path)], Tail(toks))
            ELSE AddIncludesNoSet(st, Tail(toks))

\* the C_INCLUDES | AS_INCLUDES arm, over the tokens left
RECURSIVE AddIncludes(_, _)
AddIncludes(st, toks) ==
    IF toks = <<>> THEN st
    ELSE LET token == Head(toks)
             path == TrimStartMatches(token, Chars("-I"))
         IN IF StartsWith(token, Chars("-I")) /\ path \notin st.include_set
            THEN AddIncludes([st EXCEPT !.include_set = @ \cup {path},
                                        !.cfg.includes = Append(@, path)], Tail(toks))
            ELSE AddIncludes(st, Tail(toks))

\* the name a C_DEFS | AS_DEFS token stands for
DefineName(token) ==
    IF StartsWith(token, Chars("-D")) THEN TrimStartMatches(token, Chars("-D"))
    ELSE IF StartsWith(token, Chars("-include"))
    THEN Trim(TrimStartMatches(token, Chars("-include")))
    ELSE token

\* the C_DEFS | AS_DEFS arm, over the tokens left
RECURSIVE AddDefines(_, _)
AddDefines(st, toks) ==
    IF toks = <<>> THEN st
    ELSE LET name == DefineName(Head(toks))
         IN IF name # <<>> /\ name \notin st.define_set
            THEN AddDefines([st EXCEPT !.define_set = @ \cup {name},
                                       !.cfg.defines = Append(@, name)], Tail(toks))
            ELSE AddDefines(st, Tail(toks))

\* the body of the loop over the logical lines, on one of them
ParseLine(st, l) ==
    LET line == Trim(l)
        cap == ReAssign(line)
        toks == SplitWhitespace(cap.val)
    IN IF line = <<>> \/ Head(line) = "#" THEN st
       ELSE IF ~cap.ok THEN st
       ELSE CASE cap.key = Chars("TARGET") -> [st EXCEPT !.cfg.target = <<cap.val>>]
              [] cap.key = Chars("BUILD_DIR") -> [st EXCEPT !.cfg.build_dir = <<cap.val>>]
              [] cap.key = Chars("C_SOURCES") -> [st EXCEPT !.cfg.c_sources = @ \o toks]
              [] cap.key = Chars("ASM_SOURCES") -> [st EXCEPT !.cfg.asm_sources = @ \o toks]
              [] cap.key \in {Chars("C_INCLUDES"), Chars("AS_INCLUDES")} -> AddIncludes(st, toks)
              [] cap.key \in {Chars("C_DEFS"), Chars("AS_DEFS")} -> AddDefines(st, toks)
              [] cap.key = Chars("CFLAGS") -> [st EXCEPT !.cfg.cflags = @ \o toks]
              [] cap.key = Chars("ASFLAGS") -> [st EXCEPT !.cfg.asflags = @ \o toks]
              [] cap.key = Chars("LDFLAGS") -> [st EXCEPT !.cfg.ldflags = @ \o toks]
              [] cap.key = Chars("LIBS") -> [st EXCEPT !.cfg.libs = @ \o toks]
              [] cap.key = Chars("LDSCRIPT") -> [st EXCEPT !.cfg.ldscript = <<cap.val>>]
              [] OTHER -> st

ParseIdle ==
    [pc |-> "idle", lines |-> <<>>, i |-> 0, cfg |-> EmptyConfig,
     include_set |-> {}, define_set |-> {}]


(***************************************************************************)
(* Inputs of the patch engine.                                             *)
(***************************************************************************)
Alphabet == {"a", "b", "\n"}

\* the content of spec scenario 6 (hard-FPU block of CMakeLists_template.txt)
HardFpuContent == Chars("#Uncomment for hardware floating point\n#foo\n#bar\n\n")

\* the hard-FPU block alone and inside a larger template
HardFpuContents ==
    {HardFpuContent, Chars("x\n") \o HardFpuContent \o Chars("y\n")}

\* contents beyond the enumerated ones: CRLF line ends, the hard-FPU block
ScenarioContents ==
    {Chars("a\r\nb\r\n"), Chars("ab\n\nab")} \cup HardFpuContents

Contents == TextsUpTo(Alphabet, MaxLen) \cup ScenarioContents

FileStates ==
    {[kind |-> "text", content |-> c] : c \in Contents}
    \cup {[kind |-> k, content |-> <<>>] : k \in {"missing", "denied", "invalid_utf8"}}

FieldTexts == {<<>>, <<"a">>, <<"b">>, <<"\n">>, <<"a", "b">>}

RegexInserts == {<<>>, <<"b">>, <<"a", "a">>, Chars("$0$0"), HardFpuInsert}

RegexPatterns == {"a", "^a", "b*", "("}

\* the FPU patch of clion_custom_init
HardFpuPatch ==
    [mode |-> "RegexReplace", pattern |-> HardFpuPattern, insert |-> HardFpuInsert]

Patches ==
    {[mode |-> "Append", after |-> a, insert |-> i, marker |-> m] :
        a \in FieldTexts, i \in FieldTexts, m \in FieldTexts}
    \cup {[mode |-> "Replace", find |-> f, insert |-> i] :
        f \in FieldTexts, i \in FieldTexts}
    \cup {[mode |-> "RegexReplace", pattern |-> p, insert |-> i] :
        p \in RegexPatterns, i \in RegexInserts}
    \cup {HardFpuPatch}

(***************************************************************************)
(* A run of the tool: the apply_patch calls of run_init and                *)
(* clion_custom_init (src/src/main.rs), each followed by `?`.              *)
(***************************************************************************)
\* the two files the patches of a run name
RunFiles == {"CMakeLists_template.txt", "Makefile"}

\* get_file
GetFile(p) == p.file

\* `?` with every result taken for a success
TryIgnoreResult(result) == "running"

\* apply_patch(..)? : an Ok result lets the run go on to the next statement,
\* an Err returns from the function and a panic unwinds it
Try(result) == IF result = "Ok" THEN "running" ELSE "failed"

\* no run: the working tree is empty and nothing is called
RunIdle ==
    [idx |-> 0, status |-> "idle", trace |-> <<>>,
     initial |-> [f \in RunFiles |-> [kind |-> "missing", content |-> <<>>]]]

RunIdleInit ==
    /\ files = [f \in RunFiles |-> [kind |-> "missing", content |-> <<>>]]
    /\ writables = [f \in RunFiles |-> FALSE]
    /\ plist = <<>>
    /\ run = RunIdle

(***************************************************************************)
(* The patch engine as a state machine: the tool is run again and again    *)
(* with the same patch against the same file.                              *)
(***************************************************************************)
Init ==
    /\ file \in FileStates
    /\ writable \in BOOLEAN
    /\ patch \in Patches
    \* the template with the hard-FPU block is the target of the FPU patch only
    /\ file.content \in HardFpuContents => patch = HardFpuPatch
    /\ log = <<>>
    /\ phys = <<>>
    /\ unf = UnfoldIdle
    /\ items = <<>>
    /\ content = <<>>
    /\ parse = ParseIdle
    /\ RunIdleInit

\* apply_patch(&patch)
ApplyPatch ==
    /\ Len(log) < MaxRuns
    /\ LET r == ApplyResult(patch, file, writable)
       IN /\ file' = r.after
          /\ log' = Append(log, [before |-> file, after |-> r.after, result |-> r.result,
                                 wrote |-> r.wrote, attempted |-> r.attempted])
    /\ UNCHANGED <<writable, patch, phys, unf, items, content, parse, runVars>>

Next == ApplyPatch

Spec == Init /\ [][Next]_vars

(***************************************************************************)
(* unfold_multiline as a state machine: one step per physical line.        *)
(***************************************************************************)
UnfoldLines ==
    {Chars("A \\"), Chars("B \\"), Chars("C"), Chars("A\\"), Chars("B\\"),
     Chars("B \\  "), Chars(""), Chars("\\")}

InitUnfold ==
    /\ phys \in UNION {[1..n -> UnfoldLines] : n \in 0..MaxLines}
    /\ unf = UnfoldStart
    /\ file = [kind |-> "missing", content |-> <<>>]
    /\ writable = FALSE
    /\ patch = [mode |-> "Replace", find |-> <<>>, insert |-> <<>>]
    /\ log = <<>>
    /\ items = <<>>
    /\ content = <<>>
    /\ parse = ParseIdle
    /\ RunIdleInit

\* the body of `for l in lines`
UnfoldStep ==
    /\ ~unf.done
    /\ unf.i >= 1
    /\ unf.i <= Len(phys)
    /\ unf' = UnfoldLine(unf, phys[unf.i])
    /\ UNCHANGED <<file, writable, patch, log, phys, items, content, parse, runVars>>

\* the end of the loop and the return
UnfoldReturn ==
    /\ ~unf.done
    /\ unf.i >= 1
    /\ unf.i > Len(phys)
    /\ unf' = UnfoldFinish(unf)
    /\ UNCHANGED <<file, writable, patch, log, phys, items, content, parse, runVars>>

NextUnfold == UnfoldStep \/ UnfoldReturn

SpecUnfold == InitUnfold /\ [][NextUnfold]_vars

(***************************************************************************)
(* parse_makefile as a state machine: the Makefile text is written from a  *)
(* list of statements, each with the key it assigns and the values it      *)
(* stands for; the parser then reads the text.                             *)
(***************************************************************************)
Texts(strs) == [i \in 1..Len(strs) |-> Chars(strs[i])]

Item(key, vals, text) == [key |-> key, vals |-> Texts(vals), text |-> Chars(text)]

ParseItems ==
    {Item("C_SOURCES", <<"a.c", "b.c">>, "C_SOURCES = a.c b.c"),
     Item("C_SOURCES", <<"c.c", "a.c">>, "C_SOURCES += c.c  a.c"),
     Item("ASM_SOURCES", <<"s.s">>, "ASM_SOURCES:=s.s"),
     Item("CFLAGS", <<"-O2", "-Ifoo">>, "CFLAGS = -O2 \\\n-Ifoo"),
     Item("CFLAGS", <<"$(MCU)", "-O2">>, "  CFLAGS += $(MCU) -O2"),
     Item("ASFLAGS", <<"-x">>, "ASFLAGS= -x"),
     Item("LDFLAGS", <<"-lc", "-lc">>, "LDFLAGS = -lc -lc"),
     Item("LIBS", <<"-lm", "-lc">>, "LIBS =\t-lm -lc"),
     Item("C_INCLUDES", <<"foo", "bar", "foo">>, "C_INCLUDES = -Ifoo -Ibar -Ifoo"),
     Item("AS_INCLUDES", <<"bar", "baz">>, "AS_INCLUDES += -Ibar \\\n-I-Ibaz x"),
     Item("C_DEFS", <<"X", "Y", "X">>, "C_DEFS = -DX -DY -DX"),
     Item("AS_DEFS", <<"Y", "Z">>, "AS_DEFS := -DY Z -D"),
     Item("TARGET", <<"fw">>, "TARGET = fw"),
     Item("", <<>>, "# C_SOURCES = x.c"),
     Item("", <<>>, "# note \\\nC_INCLUDES = -Iqux"),
     Item("", <<>>, "all: a.o"),
     Item("", <<>>, "")}

InitParse ==
    /\ items \in UNION {[1..n -> ParseItems] : n \in 0..MaxItems}
    /\ content = Join([i \in 1..Len(items) |-> items[i].text \o <<"\n">>], <<>>)
    /\ parse = [ParseIdle EXCEPT !.pc = "start"]
    /\ file = [kind |-> "missing", content |-> <<>>]
    /\ writable = FALSE
    /\ patch = [mode |-> "Replace", find |-> <<>>, insert |-> <<>>]
    /\ log = <<>>
    /\ phys = <<>>
    /\ unf = UnfoldIdle
    /\ RunIdleInit

\* content.lines(), unfold_multiline, the empty cfg and the two empty sets
ParseStart ==
    /\ parse.pc = "start"
    /\ parse' = [parse EXCEPT !.pc = "loop", !.i = 1,
                              !.lines = UnfoldMultiline(Lines(content))]
    /\ UNCHANGED <<file, writable, patch, log, phys, unf, items, content, runVars>>

\* the body of `for line in lines`
ParseStep ==
    /\ parse.pc = "loop"
    /\ parse.i <= Len(parse.lines)
    /\ LET st == ParseLine([cfg |-> parse.cfg, include_set |-> parse.include_set,
                            define_set |-> parse.define_set], parse.lines[parse.i])
       IN parse' = [parse EXCEPT !.i = @ + 1, !.cfg = st.cfg,
                                 !.include_set = st.include_set,
                                 !.define_set = st.define_set]
    /\ UNCHANGED <<file, writable, patch, log, phys, unf, items, content, runVars>>

\* the end of the loop: cfg is returned
ParseReturn ==
    /\ parse.pc = "loop"
    /\ parse.i > Len(parse.lines)
    /\ parse' = [parse EXCEPT !.pc = "done"]
    /\ UNCHANGED <<file, writable, patch, log, phys, unf, items, content, runVars>>

NextParse == ParseStart \/ ParseStep \/ ParseReturn

SpecParse == InitParse /\ [][NextParse]_vars


(***************************************************************************)
(* The run as a state machine: one step per apply_patch(..)? statement.    *)
(***************************************************************************)
RunFileStates ==
    {[kind |-> "text", content |-> Chars("a")],
     [kind |-> "text", content |-> Chars("ab")],
     [kind |-> "missing", content |-> <<>>]}

\* per file: an Append whose marker is its insert, a Replace, and a
\* RegexReplace whose pattern does not compile
RunPatches ==
    UNION {{[mode |-> "Append", file |-> f, after |-> <<"a">>, insert |-> <<"b">>,
             marker |-> <<"b">>],
            [mode |-> "Replace", file |-> f, find |-> <<"a">>, insert |-> <<"b">>],
            [mode |-> "RegexReplace", file |-> f, pattern |-> "(", insert |-> <<"b">>]}
           : f \in RunFiles}

InitRun ==
    /\ files \in [RunFiles -> RunFileStates]
    /\ writables \in [RunFiles -> BOOLEAN]
    /\ plist \in UNION {[1..n -> RunPatches] : n \in 0..MaxPatches}
    /\ run = [idx |-> 1, status |-> "running", trace |-> <<>>, initial |-> files]
    /\ file = [kind |-> "missing", content |-> <<>>]
    /\ writable = FALSE
    /\ patch = [mode |-> "Replace", find |-> <<>>, insert |-> <<>>]
    /\ log = <<>>
    /\ phys = <<>>
    /\ unf = UnfoldIdle
    /\ items = <<>>
    /\ content = <<>>
    /\ parse = ParseIdle

\* apply_patch(&plist[idx])? : the call runs to its end (read, edit, write)
\* and `?` decides whether the next statement is reached
RunStep ==
    /\ run.status = "running"
    /\ run.idx >= 1
    /\ run.idx <= Len(plist)
    /\ LET p == plist[run.idx]
           f == GetFile(p)
           r == ApplyResult(p, files[f], writables[f])
           status == Try(r.result)
       IN /\ files' = [files EXCEPT ![f] = r.after]
          /\ run' = [run EXCEPT
                       !.status = status,
                       !.idx = IF status = "running" THEN @ + 1 ELSE @,
                       !.trace = Append(@, [idx |-> run.idx, file |-> f,
                                            before |-> files[f], after |-> r.after,
                                            result |-> r.result,
                                            attempted |-> r.attempted,
                                            wrote |-> r.wrote])]
    /\ UNCHANGED <<file, writable, patch, log, phys, unf, items, content, parse,
                   writables, plist>>

\* the Ok(()) after the last statement
RunReturn ==
    /\ run.status = "running"
    /\ run.idx > Len(plist)
    /\ run' = [run EXCEPT !.status = "done"]
    /\ UNCHANGED <<file, writable, patch, log, phys, unf, items, content, parse,
                   files, writables, plist>>

NextRun == RunStep \/ RunReturn

SpecRun == InitRun /\ [][NextRun]_vars

(***************************************************************************)
(* Claims about the patch engine, checked under Spec.                      *)
(***************************************************************************)
Calls == 1..Len(log)

InvalidRegexPatch == patch.mode = "RegexReplace" /\ ~RegexNew(patch.pattern).ok

ReadFailed(f) == f.kind \in {"denied", "invalid_utf8"}

\* C1: applying the same patch a second time leaves the file content as the
\* first application left it, for every patch and every initial content.
C1_Idempotent ==
    \A i \in Calls : i >= 2 => log[i].after = log[1].after

\* C2: on a target that does not exist apply_patch returns Ok, calls no write
\* and creates no file, whatever the patch mode and its other fields.
C2_MissingFileSkipped ==
    \A i \in Calls :
        log[i].before.kind = "missing"
        => /\ log[i].result = "Ok"
           /\ ~log[i].attempted
           /\ log[i].after.kind = "missing"

\* C2 witness: a RegexReplace patch whose pattern does not compile was applied
\* to a missing target.
C2_Witness ==
    /\ Len(log) >= 1
    /\ log[1].before.kind = "missing"
    /\ InvalidRegexPatch

\* C3 (as stated): a RegexReplace patch with an invalid pattern never returns
\* success and never writes.
C3_InvalidRegexAlwaysFatal ==
    \A i \in Calls :
        InvalidRegexPatch => log[i].result # "Ok" /\ ~log[i].attempted

\* C3 (amended): a RegexReplace patch with an invalid pattern never writes the
\* target; it aborts the run (panic) whenever the target's content was read,
\* and is skipped with success when the target does not exist, because the
\* file is read before the pattern is compiled.
C3_InvalidRegexFatalOnceRead ==
    \A i \in Calls :
        InvalidRegexPatch
        => /\ ~log[i].attempted
           /\ log[i].after = log[i].before
           /\ (log[i].before.kind = "text" => log[i].result = "Panic")
           /\ (log[i].before.kind = "missing" => log[i].result = "Ok")

\* C3 witness: a patch with an invalid pattern was applied to a readable file
\* and the call panicked.
C3_Witness ==
    /\ Len(log) >= 1
    /\ InvalidRegexPatch
    /\ log[1].before.kind = "text"
    /\ log[1].result = "Panic"

\* C4: a read failure other than a missing file is returned as an error (only
\* a missing file is a success), and a failed write is returned as an error.
C4_IoFailuresPropagate ==
    \A i \in Calls :
        /\ (ReadFailed(log[i].before) => log[i].result = "Err")
        /\ (log[i].attempted /\ ~log[i].wrote => log[i].result = "Err")

\* C5: the target is written only when the edit was not skipped and the new
\* content differs from the content read.
C5_WriteOnlyIfChanged ==
    \A i \in Calls :
        log[i].attempted
        => Transform(patch, log[i].before.content).new # log[i].before.content

\* the text C9 describes: every line followed by a newline, and by insert and
\* a newline when the line contains after
RECURSIVE LinesWithInserts(_, _, _)
LinesWithInserts(ls, after, insert) ==
    IF ls = <<>> THEN <<>>
    ELSE ls[1] \o <<"\n">>
         \o (IF Contains(ls[1], after) THEN insert \o <<"\n">> ELSE <<>>)
         \o LinesWithInserts(Tail(ls), after, insert)

\* what Append writes for a file of lines ls (a file without lines gets "\n")
AppendExpected(ls, after, insert) ==
    IF ls = <<>> THEN <<"\n">> ELSE LinesWithInserts(ls, after, insert)

C10_HardFpuUncommented ==
    \A i \in Calls :
        (patch = HardFpuPatch /\ log[i].before.kind = "text"
            /\ log[i].before.content = HardFpuContent /\ log[i].wrote)
        => log[i].after.content
             = Chars("Uncomment for hardware floating point\nfoo\nbar\n\n")

(***************************************************************************)
(* Claims about unfold_multiline, checked under SpecUnfold.                *)
(***************************************************************************)
\* a physical line that ends, trailing whitespace aside, with the continuation
\* character
Continued(l) == EndsWith(TrimEnd(l), <<"\\">>)

\* what a physical line contributes to its logical line
Fragment(l) ==
    IF Continued(l) THEN SubSeq(TrimEnd(l), 1, Len(TrimEnd(l)) - 1) \o <<" ">>
    ELSE TrimEnd(l)

\* the physical lines that start a logical line
RunStarts(ls) == {i \in 1..Len(ls) : i = 1 \/ ~Continued(ls[i - 1])}

\* the last physical line of the run that starts at i
RunEnd(ls, i) ==
    CHOOSE j \in i..Len(ls) :
        /\ ~Continued(ls[j]) \/ j = Len(ls)
        /\ \A k \in i..(j - 1) : Continued(ls[k])

\* the logical lines of ls: one per maximal run of continued lines
LogicalLines(ls) ==
    LET starts == RunStarts(ls)
        nth(k) == CHOOSE i \in starts : Cardinality({t \in starts : t <= i}) = k
    IN [k \in 1..Cardinality(starts) |->
          Join([m \in 1..(RunEnd(ls, nth(k)) - nth(k) + 1) |-> Fragment(ls[nth(k) + m - 1])],
               <<>>)]

UnfoldExample == <<Chars("A \\"), Chars("B \\"), Chars("C")>>

\* C6 (as stated): every run of continued lines unfolds to one logical line
\* (marker removed, one space appended, next line concatenated; a dangling
\* continuation is still emitted), and `A \`, `B \`, `C` unfold to `A B C`.
C6_UnfoldExampleSingleSpaced ==
    unf.done
    => /\ unf.result = LogicalLines(phys)
       /\ phys = UnfoldExample => unf.result = <<Chars("A B C")>>

\* C6 (amended): every run of continued lines unfolds to one logical line
\* (marker removed, one space appended, next line concatenated; a dangling
\* continuation is still emitted); the space before the marker is kept, so
\* `A \`, `B \`, `C` unfold to `A  B  C` with two spaces, and it is `A\`,
\* `B\`, `C` that unfold to `A B C`.
C6_Unfold ==
    unf.done
    => /\ unf.result = LogicalLines(phys)
       /\ phys = UnfoldExample => unf.result = <<Chars("A  B  C")>>
       /\ phys = <<Chars("A\\"), Chars("B\\"), Chars("C")>>
          => unf.result = <<Chars("A B C")>>

\* C6 witness: the three lines of the example were unfolded.
C6_Witness == unf.done /\ phys = UnfoldExample

(***************************************************************************)
(* Claims about parse_makefile, checked under SpecParse.                   *)
(***************************************************************************)
\* the values of the statements that assign one of keys, in file order
RECURSIVE ValuesOf(_, _)
ValuesOf(its, keys) ==
    IF its = <<>> THEN <<>>
    ELSE (IF Head(its).key \in keys THEN Head(its).vals ELSE <<>>) \o ValuesOf(Tail(its), keys)

\* the first occurrence of every entry of s, in order
RECURSIVE FirstOccurrences(_, _)
FirstOccurrences(s, i) ==
    IF i > Len(s) THEN <<>>
    ELSE (IF \E j \in 1..(i - 1) : s[j] = s[i] THEN <<>> ELSE <<s[i]>>)
         \o FirstOccurrences(s, i + 1)

NoRepeat(s) == \A i, j \in 1..Len(s) : i # j => s[i] # s[j]

IncludeKeys == {"C_INCLUDES", "AS_INCLUDES"}

DefineKeys == {"C_DEFS", "AS_DEFS"}

\* C7: includes and defines never hold a repeated entry, and the returned
\* sequences are the first occurrences, in file order, of the paths (names) of
\* all C_INCLUDES/AS_INCLUDES (C_DEFS/AS_DEFS) lines together.
C7_IncludesDefinesDeduplicated ==
    /\ NoRepeat(parse.cfg.includes)
    /\ NoRepeat(parse.cfg.defines)
    /\ parse.pc = "done"
       => /\ parse.cfg.includes = FirstOccurrences(ValuesOf(items, IncludeKeys), 1)
          /\ parse.cfg.defines = FirstOccurrences(ValuesOf(items, DefineKeys), 1)

\* C7 witness: a C_INCLUDES line and an AS_INCLUDES line that repeat a path
\* were parsed.
C7_Witness ==
    /\ parse.pc = "done"
    /\ Len(items) = 2
    /\ items[1].key = "C_INCLUDES"
    /\ items[2].key = "AS_INCLUDES"
    /\ Len(parse.cfg.includes) < Len(ValuesOf(items, IncludeKeys))

\* C8: for C_SOURCES, ASM_SOURCES, CFLAGS, ASFLAGS, LDFLAGS and LIBS the
\* returned sequence is the concatenation, in file order, of the tokens of all
\* assignment lines of that key, duplicates kept; lines of other keys add
\* nothing to it.
C8_TokenSequences ==
    parse.pc = "done"
    => /\ parse.cfg.c_sources = ValuesOf(items, {"C_SOURCES"})
       /\ parse.cfg.asm_sources = ValuesOf(items, {"ASM_SOURCES"})
       /\ parse.cfg.cflags = ValuesOf(items, {"CFLAGS"})
       /\ parse.cfg.asflags = ValuesOf(items, {"ASFLAGS"})
       /\ parse.cfg.ldflags = ValuesOf(items, {"LDFLAGS"})
       /\ parse.cfg.libs = ValuesOf(items, {"LIBS"})

\* C8 witness: two C_SOURCES lines, `=` then `+=`, that share a token were
\* parsed and every token was kept.
C8_Witness ==
    /\ parse.pc = "done"
    /\ Len(items) = 2
    /\ items[1].text = Chars("C_SOURCES = a.c b.c")
    /\ items[2].text = Chars("C_SOURCES += c.c  a.c")
    /\ parse.cfg.c_sources = Texts(<<"a.c", "b.c", "c.c", "a.c">>)

(***************************************************************************)
(* Claims about a run, checked under SpecRun.                              *)
(***************************************************************************)
\* the state of file f when call k of the trace starts, as the earlier calls
\* left it
RECURSIVE StateBefore(_, _)
StateBefore(f, k) ==
    IF k = 1 THEN run.initial[f]
    ELSE IF run.trace[k - 1].file = f THEN run.trace[k - 1].after
    ELSE StateBefore(f, k - 1)

\* C11: the patches of a run are applied one after another in list order,
\* each call complete before the next starts; the first call that fails
\* fatally is the last call of the run, and a skipped patch (missing file or
\* already applied) is followed by the next patch of the list.
C11_SequentialFailFast ==
    LET n == Len(run.trace)
    IN /\ \A k \in 1..n :
            /\ run.trace[k].idx = k
            /\ run.trace[k].file = GetFile(plist[k])
            /\ run.trace[k].before = StateBefore(run.trace[k].file, k)
            /\ k < n => run.trace[k].result = "Ok"
       /\ \A f \in RunFiles : files[f] = StateBefore(f, n + 1)
       /\ run.status = "running" => run.idx = n + 1
       /\ run.status = "failed"
          => n >= 1 /\ run.trace[n].result # "Ok" /\ run.idx = n
       /\ run.status = "done"
          => n = Len(plist) /\ \A k \in 1..n : run.trace[k].result = "Ok"

\* C11 witness: the first patch was skipped, the second failed fatally, and
\* the third was never applied.
C11_Witness ==
    /\ run.status = "failed"
    /\ Len(plist) = 3
    /\ Len(run.trace) = 2
    /\ run.trace[1].result = "Ok"
    /\ ~run.trace[1].attempted
    /\ run.trace[2].result # "Ok"

(***************************************************************************)
(* Claims about Replace and about re-running Append, checked under Spec.   *)
(***************************************************************************)
\* the pieces of s between the occurrences of a non-empty find, left to right
RECURSIVE SplitBy(_, _)
SplitBy(s, find) ==
    LET k == FindFrom(s, find, 1)
    IN IF k = 0 THEN <<s>>
       ELSE <<SubSeq(s, 1, k - 1)>> \o SplitBy(From(s, k + Len(find)), find)

\* the pieces of s around the occurrences of find; the empty find occurs at
\* every character boundary
Pieces(s, find) ==
    IF find = <<>> THEN <<<<>>>> \o [i \in 1..Len(s) |-> <<s[i]>>] \o <<<<>>>>
    ELSE SplitBy(s, find)

\* C12: a Replace leaves a file that contains insert as it is, otherwise it
\* replaces every literal occurrence of find by insert; a second application
\* never changes what the first produced - for every find, insert and
\* content, empty find, empty insert and insert containing find included.
C12_ReplaceIdempotent ==
    \A i \in Calls :
        patch.mode = "Replace"
        => /\ log[i].before.kind = "text"
              => LET old == log[i].before.content
                     new == log[i].after.content
                 IN IF Contains(old, patch.insert)
                    THEN ~log[i].attempted /\ new = old
                    ELSE /\ log[i].attempted
                         /\ log[i].wrote
                            => new = Join(Pieces(old, patch.find), patch.insert)
           /\ i >= 2 => log[i].after = log[1].after

\* C12 witness: a Replace whose insert contains its find changed the file on
\* the first application and was skipped on the second.
C12_Witness ==
    /\ Len(log) >= 2
    /\ patch.mode = "Replace"
    /\ patch.find # <<>>
    /\ patch.insert # patch.find
    /\ Contains(patch.insert, patch.find)
    /\ log[1].wrote
    /\ log[1].after # log[1].before
    /\ ~log[2].attempted

\* an Append whose marker is a substring of its insert
MarkerInInsert == patch.mode = "Append" /\ Contains(patch.insert, patch.marker)

\* the first application of the patch wrote the file and inserted below at
\* least one line
InsertedOnce ==
    /\ Len(log) >= 1
    /\ log[1].wrote
    /\ \E j \in 1..Len(Lines(log[1].before.content)) :
          Contains(Lines(log[1].before.content)[j], patch.after)

\* C13: for an Append whose marker is a substring of its insert, once the
\* first application has inserted, every later application is a no-op, so the
\* file stays the original lines with exactly one copy of insert below each
\* line that contains after.
C13_AppendRerunSafe ==
    (MarkerInInsert /\ InsertedOnce)
    => \A i \in Calls :
          /\ i >= 2 => ~log[i].attempted /\ log[i].result = "Ok"
          /\ log[i].after.content
               = LinesWithInserts(Lines(log[1].before.content), patch.after, patch.insert)

\* C13 witness: such an Append inserted on the first application and was
\* applied again.
C13_Witness ==
    /\ MarkerInInsert
    /\ InsertedOnce
    /\ Len(log) >= 2
    /\ patch.marker # <<>>
    /\ patch.insert # patch.marker

====
